---- MODULE Spec2Model ----
(***************************************************************************)
(* Model of bert_score/compare.py: the chunking, alignment, scoring and    *)
(* aggregation pipeline of the BERTScore comparer.                         *)
(*                                                                         *)
(* A Python str is a sequence of one-character strings (the empty str is   *)
(* the empty sequence), a list is a sequence, None is the record Null.     *)
(* Scores are fixed-point integers; a quotient the code computes in        *)
(* floating point is kept exact as a record [num, den].                    *)
(***************************************************************************)
EXTENDS Integers, Sequences, FiniteSets, TLC

VARIABLES
    pc,                 \* position of the running function
    argv,               \* the command line, as given
    args,               \* the argparse Namespace, Null before parse_args
    candidate_text,     \* main: normalized candidate text
    reference_text,     \* main: normalized reference text
    candidate_chunks,   \* main: chunks of the candidate
    reference_chunks,   \* main: chunks of the reference
    chunk_pairs,        \* main: aligned (and truncated) pairs
    oracle_calls,       \* number of calls made to bert_score.score
    oracle_batch,       \* the (candidates, references) batches handed to it
    scores,             \* BertScoreResult, Null before the call returns
    summary,            \* dict returned by summarize_scores, Null before
    worst_chunks,       \* print_summary: the sorted, cut per-chunk rows
    stdout,             \* lines printed
    json_file,          \* content written to args.json, Null if none
    error,              \* the exception that ended the run, "" if none
    text,               \* chunk_text: argument
    chunk_size,         \* chunk_text: argument
    chunk_overlap,      \* chunk_text: argument
    words,              \* chunk_text: local
    step,               \* chunk_text: local
    start,              \* chunk_text: loop variable
    chunks,             \* chunk_text: local
    result              \* chunk_text: returned list, Null before return

mainVars == <<argv, args, candidate_text, reference_text, candidate_chunks,
              reference_chunks, chunk_pairs, oracle_calls, oracle_batch,
              scores, summary, worst_chunks, stdout, json_file, error>>
chunkVars == <<text, chunk_size, chunk_overlap, words, step, start, chunks, result>>
vars == <<pc, mainVars, chunkVars>>

Null == [null |-> TRUE]

(***************************************************************************)
(* Bounds of the model                                                     *)
(***************************************************************************)
MaxTextLen == 6
MaxChunkSize == 3
MaxOverlap == 3
MaxChunks == 3
MaxPairs == 3
MaxShow == 2

(***************************************************************************)
(* Strings                                                                 *)
(***************************************************************************)
Whitespace == {" ", "\n"}
Letters == {"a", "b", "A", "B"}

Min(a, b) == IF a < b THEN a ELSE b
Max(a, b) == IF a > b THEN a ELSE b

RECURSIVE SplitFrom(_, _, _, _)
SplitFrom(s, i, cur, acc) ==
    IF i > Len(s)
    THEN IF cur = <<>> THEN acc ELSE Append(acc, cur)
    ELSE IF s[i] \in Whitespace
         THEN SplitFrom(s, i + 1, <<>>, IF cur = <<>> THEN acc ELSE Append(acc, cur))
         ELSE SplitFrom(s, i + 1, Append(cur, s[i]), acc)

\* str.split(): the maximal runs of non-whitespace characters, in order
split(s) == SplitFrom(s, 1, <<>>, <<>>)

RECURSIVE join(_)
\* " ".join(ws)
join(ws) ==
    IF ws = <<>> THEN <<>>
    ELSE IF Len(ws) = 1 THEN ws[1]
    ELSE ws[1] \o <<" ">> \o join(Tail(ws))

\* s[lo:hi] for 0 <= lo and 0 <= hi
Slice(s, lo, hi) == SubSeq(s, lo + 1, Min(hi, Len(s)))

(***************************************************************************)
(* chunk_text                                                              *)
(***************************************************************************)
effective_overlap(size, overlap) ==
    IF size > 1 THEN Min(overlap, size - 1) ELSE 0

step_NoFloor(size, overlap) == size - overlap

step_PastWindow(size, overlap) == size + 1

chunk_step(size, overlap) == Max(size - effective_overlap(size, overlap), 1)

\* one iteration of the loop body: the chunk that starts at word index st
chunk_at(ws, st, size) == join(Slice(ws, st, st + size))

\* range(0, stop, stp) still has a value at st
RangeHas(st, stop, stp) ==
    \/ stp > 0 /\ st < stop
    \/ stp < 0 /\ st > stop

RECURSIVE ChunkLoop(_, _, _, _, _)
ChunkLoop(ws, st, stp, size, acc) ==
    IF RangeHas(st, Len(ws), stp)
    THEN ChunkLoop(ws, st + stp, stp, size, Append(acc, chunk_at(ws, st, size)))
    ELSE acc

\* chunk_text as a function; a list of chunks, or the exception raised
chunk_text(s, size, overlap) ==
    LET ws == split(s)
        stp == chunk_step(size, overlap)
    IN  IF ws = <<>> THEN << <<>> >>
        ELSE IF stp = 0 THEN "ValueError"
        ELSE LET cs == ChunkLoop(ws, 0, stp, size, <<>>)
             IN  IF cs = <<>> THEN << <<>> >> ELSE cs

(***************************************************************************)
(* chunk_text, statement by statement                                      *)
(***************************************************************************)
RECURSIVE SeqsUpTo(_, _)
SeqsUpTo(S, n) ==
    IF n = 0 THEN {<<>>}
    ELSE LET shorter == SeqsUpTo(S, n - 1)
         IN  shorter \cup {Append(s, c) : s \in {t \in shorter : Len(t) = n - 1}, c \in S}

Texts == SeqsUpTo({"a", "b", " "}, MaxTextLen)

mainIdle ==
    /\ argv = Null /\ args = Null
    /\ candidate_text = <<>> /\ reference_text = <<>>
    /\ candidate_chunks = <<>> /\ reference_chunks = <<>>
    /\ chunk_pairs = <<>>
    /\ oracle_calls = 0 /\ oracle_batch = Null
    /\ scores = Null /\ summary = Null
    /\ worst_chunks = <<>> /\ stdout = <<>> /\ json_file = Null
    /\ error = ""

chunkIdle ==
    /\ text = <<>> /\ chunk_size = 1 /\ chunk_overlap = 0
    /\ words = <<>> /\ step = 0 /\ start = 0 /\ chunks = <<>> /\ result = Null

InitChunk ==
    /\ pc = "chunk_text"
    /\ mainIdle
    /\ text \in Texts
    /\ chunk_size \in 1..MaxChunkSize
    /\ chunk_overlap \in 0..MaxOverlap
    /\ words = <<>> /\ step = 0 /\ start = 0 /\ chunks = <<>> /\ result = Null

\* lines 145-152: split, the empty case, the step, the empty list
ChunkEnter ==
    /\ pc = "chunk_text"
    /\ words' = split(text)
    /\ IF words' = <<>>
       THEN /\ result' = << <<>> >>
            /\ pc' = "chunk_return"
            /\ UNCHANGED <<step, start, chunks>>
       ELSE /\ step' = chunk_step(chunk_size, chunk_overlap)
            /\ chunks' = <<>>
            /\ start' = 0
            /\ IF step' = 0
               THEN pc' = "chunk_raise" /\ result' = "ValueError"
               ELSE pc' = "chunk_loop" /\ UNCHANGED result
    /\ UNCHANGED <<mainVars, text, chunk_size, chunk_overlap>>

\* lines 153-155: one pass through the loop
ChunkIter ==
    /\ pc = "chunk_loop"
    /\ RangeHas(start, Len(words), step)
    /\ chunks' = Append(chunks, chunk_at(words, start, chunk_size))
    /\ start' = start + step
    /\ UNCHANGED <<pc, mainVars, text, chunk_size, chunk_overlap, words, step, result>>

\* line 156: the range is exhausted
ChunkExit ==
    /\ pc = "chunk_loop"
    /\ ~RangeHas(start, Len(words), step)
    /\ result' = IF chunks = <<>> THEN << <<>> >> ELSE chunks
    /\ pc' = "chunk_return"
    /\ UNCHANGED <<mainVars, text, chunk_size, chunk_overlap, words, step, start, chunks>>

NextChunk == ChunkEnter \/ ChunkIter \/ ChunkExit

SpecChunk == InitChunk /\ [][NextChunk]_vars /\ WF_vars(NextChunk)

(***************************************************************************)
(* align_chunks                                                            *)
(***************************************************************************)
\* zip(a, b): stops at the shorter argument
zip(a, b) ==
    [i \in 1..Min(Len(a), Len(b)) |-> <<a[i], b[i]>>]

\* itertools.zip_longest(a, b, fillvalue=fill)
zip_longest(a, b, fill) ==
    [i \in 1..Max(Len(a), Len(b)) |->
        <<IF i <= Len(a) THEN a[i] ELSE fill, IF i <= Len(b) THEN b[i] ELSE fill>>]

\* x or ""
or_empty(x) == IF x = <<>> THEN <<>> ELSE x

align_chunks_Zip(cands, refs) == zip(cands, refs)

align_chunks(cands, refs) ==
    LET z == zip_longest(cands, refs, <<>>)
    IN  [i \in DOMAIN z |-> <<or_empty(z[i][1]), or_empty(z[i][2])>>]

ChunkChoices == {<<>>, <<"a">>, <<"a", " ", "b">>}

InitAlign ==
    /\ pc = "align_chunks"
    /\ argv = Null /\ args = Null
    /\ candidate_text = <<>> /\ reference_text = <<>>
    /\ candidate_chunks \in SeqsUpTo(ChunkChoices, MaxChunks)
    /\ reference_chunks \in SeqsUpTo(ChunkChoices, MaxChunks)
    /\ chunk_pairs = <<>>
    /\ oracle_calls = 0 /\ oracle_batch = Null
    /\ scores = Null /\ summary = Null
    /\ worst_chunks = <<>> /\ stdout = <<>> /\ json_file = Null
    /\ error = ""
    /\ chunkIdle

\* lines 159-163
AlignCall ==
    /\ pc = "align_chunks"
    /\ chunk_pairs' = align_chunks(candidate_chunks, reference_chunks)
    /\ pc' = "align_return"
    /\ UNCHANGED <<argv, args, candidate_text, reference_text, candidate_chunks,
                   reference_chunks, oracle_calls, oracle_batch, scores, summary,
                   worst_chunks, stdout, json_file, error, chunkVars>>

NextAlign == AlignCall

SpecAlign == InitAlign /\ [][NextAlign]_vars

(***************************************************************************)
(* summarize_scores                                                        *)
(***************************************************************************)
ExcerptLen == 160
RowExcerptLen == 120

RECURSIVE SumSeq(_)
SumSeq(s) == IF s = <<>> THEN 0 ELSE Head(s) + SumSeq(Tail(s))

RECURSIVE MinSeq(_)
MinSeq(s) == IF Len(s) = 1 THEN s[1] ELSE Min(s[1], MinSeq(Tail(s)))

RECURSIVE MaxSeq(_)
MaxSeq(s) == IF Len(s) = 1 THEN s[1] ELSE Max(s[1], MaxSeq(Tail(s)))

\* sum(x * w for x, w in zip(xs, ws))
WeightedSum(xs, ws) ==
    LET z == zip(xs, ws)
    IN  SumSeq([i \in DOMAIN z |-> z[i][1] * z[i][2]])

\* line 204
pair_weight(pair) == Max(Max(Len(split(pair[1])), Len(split(pair[2]))), 1)

\* lines 203-206
token_weights(pairs) == [i \in DOMAIN pairs |-> pair_weight(pairs[i])]

weighted_ByCount(xs, pairs) ==
    [num |-> WeightedSum(xs, token_weights(pairs)), den |-> Len(pairs)]

\* lines 207-210: the quotient sum(x * w) / total_weight, kept exact
weighted(xs, pairs) ==
    [num |-> WeightedSum(xs, token_weights(pairs)), den |-> SumSeq(token_weights(pairs))]

\* lines 212-224
chunk_details(sc, pairs) ==
    [idx \in DOMAIN pairs |->
        [chunk |-> idx,
         precision |-> sc.precision[idx],
         recall |-> sc.recall[idx],
         f1 |-> sc.f1[idx],
         candidate_words |-> Len(split(pairs[idx][1])),
         reference_words |-> Len(split(pairs[idx][2])),
         candidate_excerpt |-> Slice(pairs[idx][1], 0, ExcerptLen),
         reference_excerpt |-> Slice(pairs[idx][2], 0, ExcerptLen)]]

\* lines 228-233: the statistics of one dimension
dimension(xs, pairs) ==
    [mean |-> [num |-> SumSeq(xs), den |-> Len(xs)],
     weighted |-> weighted(xs, pairs),
     min |-> MinSeq(xs),
     max |-> MaxSeq(xs)]

\* what summarize_scores does: the exception it raises ("" if none) and the
\* dict it returns
summarize_scores(sc, pairs) ==
    IF SumSeq(token_weights(pairs)) = 0
    THEN [raised |-> "ZeroDivisionError", value |-> Null]
    ELSE IF \E v \in {sc.precision, sc.recall, sc.f1} : Len(v) < Len(pairs)
    THEN [raised |-> "IndexError", value |-> Null]
    ELSE IF \E v \in {sc.precision, sc.recall, sc.f1} : Len(v) = 0
    THEN [raised |-> "StatisticsError", value |-> Null]
    ELSE [raised |-> "",
          value |-> [chunks |-> Len(pairs),
                     precision |-> dimension(sc.precision, pairs),
                     recall |-> dimension(sc.recall, pairs),
                     f1 |-> dimension(sc.f1, pairs),
                     per_chunk |-> chunk_details(sc, pairs)]]

(***************************************************************************)
(* print_summary                                                           *)
(***************************************************************************)
key_less_OrEqual(a, b) == a.f1 <= b.f1

\* line 264: the order of the sort key, row["f1"]
key_less(a, b) == a.f1 < b.f1

RECURSIVE insort(_, _)
\* a row put into a sorted list behind every row that is not greater
insort(rows, row) ==
    IF rows = <<>> THEN <<row>>
    ELSE IF key_less(row, Head(rows)) THEN <<row>> \o rows
    ELSE <<Head(rows)>> \o insort(Tail(rows), row)

RECURSIVE sorted_from(_, _, _)
sorted_from(rows, i, acc) ==
    IF i > Len(rows) THEN acc ELSE sorted_from(rows, i + 1, insort(acc, rows[i]))

\* sorted(rows, key=lambda row: row["f1"]): a stable sort
sorted(rows) == sorted_from(rows, 1, <<>>)

\* line 264
worst_of(sm, show_chunks) == Slice(sorted(sm.per_chunk), 0, show_chunks)

\* s.replace("\n", " ")
replace_newlines(s) == [i \in DOMAIN s |-> IF s[i] = "\n" THEN " " ELSE s[i]]

\* lines 265-271: the fields of one printed row (the numbers are kept as
\* they are, the text of their 4-digit rendering is not modelled)
row_line(row) ==
    <<"row", row.chunk, row.f1, row.precision, row.recall,
      Slice(replace_newlines(row.candidate_excerpt), 0, RowExcerptLen),
      Slice(replace_newlines(row.reference_excerpt), 0, RowExcerptLen)>>

\* lines 254-258
header_lines(sm) ==
    << <<"BERTScore summary">>,
       <<"Precision", sm.precision.mean, sm.precision.weighted>>,
       <<"Recall", sm.recall.mean, sm.recall.weighted>>,
       <<"F1", sm.f1.mean, sm.f1.weighted>>,
       <<"Chunks compared", sm.chunks>> >>

\* the lines print_summary prints
print_summary(sm, show_chunks) ==
    IF show_chunks <= 0 THEN header_lines(sm)
    ELSE LET worst == worst_of(sm, show_chunks)
         IN  header_lines(sm) \o << <<"Worst chunks by F1:">> >>
                \o [i \in DOMAIN worst |-> row_line(worst[i])]

(***************************************************************************)
(* summarize_scores and print_summary on their own                         *)
(***************************************************************************)
ScoreVals == {-1, 2}
PairChoices == { << <<>>, <<>> >>, << <<"a", "\n", "b">>, <<"a">> >> }

ScoreVectors(n) == [1..n -> ScoreVals]

\* score vectors of any lengths, each of one repeated value
UniformVectors == {[i \in 1..n |-> v] : n \in 0..(MaxPairs + 1), v \in ScoreVals}

InitSum ==
    /\ pc = "summarize_scores"
    /\ argv = Null /\ args = Null
    /\ candidate_text = <<>> /\ reference_text = <<>>
    /\ candidate_chunks = <<>> /\ reference_chunks = <<>>
    /\ chunk_pairs \in SeqsUpTo(PairChoices, MaxPairs)
    /\ oracle_calls = 0 /\ oracle_batch = Null
    /\ \/ \E p, r, f \in ScoreVectors(Len(chunk_pairs)) :
              scores = [precision |-> p, recall |-> r, f1 |-> f]
       \/ \E p, r, f \in UniformVectors :
              scores = [precision |-> p, recall |-> r, f1 |-> f]
    /\ summary = Null
    /\ worst_chunks = <<>> /\ stdout = <<>> /\ json_file = Null
    /\ error = ""
    /\ chunkIdle

\* lines 199-247
SummarizeCall ==
    /\ pc = "summarize_scores"
    /\ LET res == summarize_scores(scores, chunk_pairs)
       IN  IF res.raised = ""
           THEN summary' = res.value /\ pc' = "summarize_return" /\ UNCHANGED error
           ELSE error' = res.raised /\ pc' = "summarize_raise" /\ UNCHANGED summary
    /\ UNCHANGED <<argv, args, candidate_text, reference_text, candidate_chunks,
                   reference_chunks, chunk_pairs, oracle_calls, oracle_batch, scores,
                   worst_chunks, stdout, json_file, chunkVars>>

\* lines 250-271, for a show_chunks of the caller's choice
PrintCall ==
    /\ pc = "summarize_return"
    /\ \E show_chunks \in 0..MaxShow :
          /\ stdout' = print_summary(summary, show_chunks)
          /\ worst_chunks' = IF show_chunks <= 0 THEN <<>> ELSE worst_of(summary, show_chunks)
          /\ args' = [show_chunks |-> show_chunks]
    /\ pc' = "print_return"
    /\ UNCHANGED <<argv, candidate_text, reference_text, candidate_chunks,
                   reference_chunks, chunk_pairs, oracle_calls, oracle_batch, scores,
                   summary, json_file, error, chunkVars>>

NextSum == SummarizeCall \/ PrintCall

SpecSum == InitSum /\ [][NextSum]_vars

(***************************************************************************)
(* parse_args                                                              *)
(***************************************************************************)
\* An option that may be absent is a sequence of at most one value.
DefaultBatchSize == 8
DefaultChunkSize == 350
DefaultChunkOverlap == 40
DefaultShowChunks == 5

DigitChars == <<"0", "1", "2", "3", "4", "5", "6", "7", "8", "9">>
IsDigit(c) == \E d \in 1..10 : DigitChars[d] = c
DigitVal(c) == (CHOOSE d \in 1..10 : DigitChars[d] = c) - 1

RECURSIVE digits_value(_, _)
digits_value(s, acc) ==
    IF s = <<>> THEN acc ELSE digits_value(Tail(s), 10 * acc + DigitVal(Head(s)))

\* int(value) for a sign and decimal digits; anything else is a ValueError
int_of(s) ==
    LET signed == s # <<>> /\ Head(s) \in {"-", "+"}
        body == IF signed THEN Tail(s) ELSE s
    IN  IF body = <<>> \/ \E i \in DOMAIN body : ~IsDigit(body[i])
        THEN [raised |-> "ValueError", value |-> 0]
        ELSE [raised |-> "",
              value |-> IF signed /\ Head(s) = "-"
                        THEN 0 - digits_value(body, 0) ELSE digits_value(body, 0)]

\* lines 24-31
positive_int(value, label) ==
    LET parsed == int_of(value)
    IN  IF parsed.raised # ""
        THEN [raised |-> "ArgumentTypeError", message |-> <<label, "must be an integer">>, value |-> 0]
        ELSE IF parsed.value <= 0
        THEN [raised |-> "ArgumentTypeError", message |-> <<label, "must be > 0">>, value |-> 0]
        ELSE [raised |-> "", message |-> <<>>, value |-> parsed.value]

\* an option of type _positive_int: its default when absent
typed_option(opt, label, default) ==
    IF opt = <<>> THEN [raised |-> "", message |-> <<>>, value |-> default]
    ELSE positive_int(opt[1], label)

\* lines 70-117, 124: the typed options, in the order they are declared; the
\* first one refused ends the parse
parse_args(av) ==
    LET bs == typed_option(av.batch_size, "batch-size", DefaultBatchSize)
        cs == typed_option(av.chunk_size, "chunk-size", DefaultChunkSize)
        co == typed_option(av.chunk_overlap, "chunk-overlap", DefaultChunkOverlap)
        mc == typed_option(av.max_chunks, "max-chunks", 0)
        sc == typed_option(av.show_chunks, "show-chunks", DefaultShowChunks)
        opts == <<bs, cs, co, mc, sc>>
        bad == {i \in 1..5 : opts[i].raised # ""}
    IN  IF bad # {}
        THEN [raised |-> "ArgumentError",
              message |-> opts[CHOOSE i \in bad : \A j \in bad : i <= j].message,
              value |-> Null]
        ELSE [raised |-> "", message |-> <<>>,
              value |-> [batch_size |-> bs.value,
                         chunk_size |-> cs.value,
                         chunk_overlap |-> co.value,
                         max_chunks |-> IF av.max_chunks = <<>> THEN <<>> ELSE <<mc.value>>,
                         show_chunks |-> sc.value,
                         no_chunk |-> av.no_chunk,
                         lower |-> av.lower,
                         normalize_whitespace |-> av.normalize_whitespace,
                         json |-> av.json,
                         candidate_text |-> av.candidate_text,
                         candidate_file |-> av.candidate_file,
                         reference_text |-> av.reference_text,
                         reference_file |-> av.reference_file]]

(***************************************************************************)
(* load_text, normalize_text                                               *)
(***************************************************************************)
\* the truth value of an optional str: None and "" are false
truthy(opt) == opt # <<>> /\ opt[1] # <<>>

\* lines 127-136; content is what the file or STDIN holds
load_text(text_value, file_given, content) ==
    IF truthy(text_value) /\ file_given
    THEN [raised |-> "SystemExit", value |-> <<>>]
    ELSE IF truthy(text_value) THEN [raised |-> "", value |-> text_value[1]]
    ELSE IF file_given THEN [raised |-> "", value |-> content]
    ELSE [raised |-> "SystemExit", value |-> <<>>]

\* str.lower() on the letters of the model
lower(s) ==
    [i \in DOMAIN s |-> CASE s[i] = "A" -> "a" [] s[i] = "B" -> "b" [] OTHER -> s[i]]

\* lines 139-141
normalize_text(s, lowercase, collapse_whitespace) ==
    LET cleaned == IF collapse_whitespace THEN join(split(s)) ELSE s
    IN  IF lowercase THEN lower(cleaned) ELSE cleaned

(***************************************************************************)
(* main                                                                    *)
(***************************************************************************)
truncate_Suffix(pairs, max_chunks) ==
    IF max_chunks # <<>> /\ max_chunks[1] # 0
    THEN SubSeq(pairs, Len(pairs) - Min(max_chunks[1], Len(pairs)) + 1, Len(pairs))
    ELSE pairs

\* lines 310-311, for a max_chunks that is None or >= 0
truncate(pairs, max_chunks) ==
    IF max_chunks # <<>> /\ max_chunks[1] # 0
    THEN Slice(pairs, 0, max_chunks[1])
    ELSE pairs

batches_Swapped(pairs) ==
    [candidates |-> [i \in DOMAIN pairs |-> pairs[i][2]],
     references |-> [i \in DOMAIN pairs |-> pairs[i][1]]]

\* lines 313-314
batches(pairs) ==
    [candidates |-> [i \in DOMAIN pairs |-> pairs[i][1]],
     references |-> [i \in DOMAIN pairs |-> pairs[i][2]]]

\* the command lines of the model
SizeArgs == {<<>>, << <<"x">> >>, << <<"0">> >>, << <<"1">> >>, << <<"2">> >>}
OverlapArgs == {<<>>, << <<"0">> >>, << <<"1">> >>, << <<"2">> >>}
BatchArgs == {<<>>, << <<"0">> >>}
MaxChunksArgs == {<<>>, << <<"0">> >>, << <<"1">> >>, << <<"2">> >>}
ShowArgs == {<<>>, << <<"-", "1">> >>, << <<"1">> >>}
TextArgs == {<<>>, << <<"a", " ", " ", "B", "\n", "b">> >>}
FileTexts == {<<>>, <<"a", " ", "b">>}

\* what bert_score.score returns for one pair: precision, recall, f1
OracleTriples == {<<2, 2, 2>>, <<-1, 2, 1>>}

Init ==
    /\ pc = "parse_args"
    /\ argv \in [batch_size : BatchArgs,
                 chunk_size : SizeArgs,
                 chunk_overlap : OverlapArgs,
                 max_chunks : MaxChunksArgs,
                 show_chunks : ShowArgs,
                 no_chunk : BOOLEAN,
                 lower : BOOLEAN,
                 normalize_whitespace : BOOLEAN,
                 json : BOOLEAN,
                 candidate_text : TextArgs,
                 candidate_file : BOOLEAN,
                 reference_text : TextArgs,
                 reference_file : BOOLEAN]
    /\ args = Null
    /\ candidate_text = <<>> /\ reference_text = <<>>
    /\ candidate_chunks = <<>> /\ reference_chunks = <<>>
    /\ chunk_pairs = <<>>
    /\ oracle_calls = 0 /\ oracle_batch = Null
    /\ scores = Null /\ summary = Null
    /\ worst_chunks = <<>> /\ stdout = <<>> /\ json_file = Null
    /\ error = ""
    /\ chunkIdle

\* line 275
ParseArgs ==
    /\ pc = "parse_args"
    /\ LET res == parse_args(argv)
       IN  IF res.raised = ""
           THEN args' = res.value /\ pc' = "load_text" /\ UNCHANGED error
           ELSE error' = res.raised /\ pc' = "exit" /\ UNCHANGED args
    /\ UNCHANGED <<argv, candidate_text, reference_text, candidate_chunks,
                   reference_chunks, chunk_pairs, oracle_calls, oracle_batch, scores,
                   summary, worst_chunks, stdout, json_file, chunkVars>>

\* lines 276-296
LoadTexts ==
    /\ pc = "load_text"
    /\ \E ccontent \in (IF args.candidate_file THEN FileTexts ELSE {<<>>}),
          rcontent \in (IF args.reference_file THEN FileTexts ELSE {<<>>}) :
          LET craw == load_text(args.candidate_text, args.candidate_file, ccontent)
              rraw == load_text(args.reference_text, args.reference_file, rcontent)
          IN  IF craw.raised # "" \/ rraw.raised # ""
              THEN /\ error' = "SystemExit"
                   /\ pc' = "exit"
                   /\ UNCHANGED <<candidate_text, reference_text>>
              ELSE /\ candidate_text' =
                          normalize_text(craw.value, args.lower, args.normalize_whitespace)
                   /\ reference_text' =
                          normalize_text(rraw.value, args.lower, args.normalize_whitespace)
                   /\ pc' = "chunk"
                   /\ UNCHANGED error
    /\ UNCHANGED <<argv, args, candidate_chunks, reference_chunks, chunk_pairs,
                   oracle_calls, oracle_batch, scores, summary, worst_chunks, stdout,
                   json_file, chunkVars>>

\* lines 298-307
Chunk ==
    /\ pc = "chunk"
    /\ IF args.no_chunk
       THEN /\ candidate_chunks' = <<candidate_text>>
            /\ reference_chunks' = <<reference_text>>
       ELSE /\ candidate_chunks' = chunk_text(candidate_text, args.chunk_size, args.chunk_overlap)
            /\ reference_chunks' = chunk_text(reference_text, args.chunk_size, args.chunk_overlap)
    /\ pc' = "align"
    /\ UNCHANGED <<argv, args, candidate_text, reference_text, chunk_pairs,
                   oracle_calls, oracle_batch, scores, summary, worst_chunks, stdout,
                   json_file, error, chunkVars>>

\* lines 309-311
Align ==
    /\ pc = "align"
    /\ chunk_pairs' = truncate(align_chunks(candidate_chunks, reference_chunks), args.max_chunks)
    /\ pc' = "run_bertscore"
    /\ UNCHANGED <<argv, args, candidate_text, reference_text, candidate_chunks,
                   reference_chunks, oracle_calls, oracle_batch, scores, summary,
                   worst_chunks, stdout, json_file, error, chunkVars>>

\* lines 313-324, 183-196: the call returns one score triple for each pair
ScoreReturns ==
    /\ pc = "run_bertscore"
    /\ oracle_calls' = oracle_calls + 1
    /\ oracle_batch' = batches(chunk_pairs)
    /\ \E out \in [DOMAIN chunk_pairs -> OracleTriples] :
          scores' = [precision |-> [i \in DOMAIN out |-> out[i][1]],
                     recall |-> [i \in DOMAIN out |-> out[i][2]],
                     f1 |-> [i \in DOMAIN out |-> out[i][3]]]
    /\ pc' = "summarize_scores"
    /\ UNCHANGED <<argv, args, candidate_text, reference_text, candidate_chunks,
                   reference_chunks, chunk_pairs, summary, worst_chunks, stdout,
                   json_file, error, chunkVars>>

\* lines 313-324, 183-191: the call raises, nothing in main catches it
ScoreRaises ==
    /\ pc = "run_bertscore"
    /\ oracle_calls' = oracle_calls + 1
    /\ oracle_batch' = batches(chunk_pairs)
    /\ error' = "ScoringError"
    /\ pc' = "exit"
    /\ UNCHANGED <<argv, args, candidate_text, reference_text, candidate_chunks,
                   reference_chunks, chunk_pairs, scores, summary, worst_chunks, stdout,
                   json_file, chunkVars>>

\* line 325
Summarize ==
    /\ pc = "summarize_scores"
    /\ LET res == summarize_scores(scores, chunk_pairs)
       IN  IF res.raised = ""
           THEN summary' = res.value /\ pc' = "print_summary" /\ UNCHANGED error
           ELSE error' = res.raised /\ pc' = "exit" /\ UNCHANGED summary
    /\ UNCHANGED <<argv, args, candidate_text, reference_text, candidate_chunks,
                   reference_chunks, chunk_pairs, oracle_calls, oracle_batch, scores,
                   worst_chunks, stdout, json_file, chunkVars>>

\* line 326
PrintSummary ==
    /\ pc = "print_summary"
    /\ stdout' = print_summary(summary, args.show_chunks)
    /\ worst_chunks' = IF args.show_chunks <= 0 THEN <<>>
                       ELSE worst_of(summary, args.show_chunks)
    /\ pc' = "write_json"
    /\ UNCHANGED <<argv, args, candidate_text, reference_text, candidate_chunks,
                   reference_chunks, chunk_pairs, oracle_calls, oracle_batch, scores,
                   summary, json_file, error, chunkVars>>

\* lines 328-329; the file holds the summary as JSON text
WriteJson ==
    /\ pc = "write_json"
    /\ json_file' = IF args.json THEN [dumps |-> summary] ELSE json_file
    /\ pc' = "done"
    /\ UNCHANGED <<argv, args, candidate_text, reference_text, candidate_chunks,
                   reference_chunks, chunk_pairs, oracle_calls, oracle_batch, scores,
                   summary, worst_chunks, stdout, error, chunkVars>>

Next ==
    \/ ParseArgs
    \/ LoadTexts
    \/ Chunk
    \/ Align
    \/ ScoreReturns
    \/ ScoreRaises
    \/ Summarize
    \/ PrintSummary
    \/ WriteJson

Spec == Init /\ [][Next]_vars

(***************************************************************************)
(* Claims about chunk_text (SpecChunk)                                     *)
(***************************************************************************)
Returned == pc = "chunk_return"

\* C1: for every text, window size > 0 and overlap >= 0 (overlap >= window
\* size included) chunk_text terminates and returns at least one chunk; the
\* step of the loop is always >= 1; a text of zero words gives [""].
C1_Terminates ==
    /\ [](pc = "chunk_loop" => step >= 1)
    /\ [](Returned => /\ Len(result) >= 1
                      /\ (split(text) = <<>> => result = << <<>> >>))
    /\ <>Returned

C1_Witness ==
    /\ Returned
    /\ chunk_overlap >= chunk_size
    /\ Len(words) >= 3
    /\ Len(result) >= 2

\* the words of chunk c that the chunks before it (nseen words so far, the
\* chunk starting at word index st) have not already given
FreshWords(c, st, nseen) ==
    LET cw == split(c)
        shared == Max(nseen - st, 0)
    IN  SubSeq(cw, shared + 1, Len(cw))

RECURSIVE Rebuild(_, _, _, _)
Rebuild(cs, k, stp, acc) ==
    IF k > Len(cs) THEN acc
    ELSE Rebuild(cs, k + 1, stp, acc \o FreshWords(cs[k], (k - 1) * stp, Len(acc)))

\* C2: for a text of n >= 1 words, chunk k is the words at indices
\* [k*step, min(k*step + windowSize, n)), every word index is in some chunk,
\* and the chunks with the shared words dropped give back the word sequence.
C2_Coverage ==
    (Returned /\ split(text) # <<>>) =>
        LET ws == split(text)
            n == Len(ws)
        IN  /\ \A k \in 0..(Len(result) - 1) :
                  /\ k * step < n
                  /\ split(result[k + 1]) = SubSeq(ws, k * step + 1, Min(k * step + chunk_size, n))
                  /\ result[k + 1] = join(split(result[k + 1]))
            /\ \A i \in 0..(n - 1) :
                  \E k \in 0..(Len(result) - 1) :
                      k * step <= i /\ i < Min(k * step + chunk_size, n)
            /\ Rebuild(result, 1, step, <<>>) = ws

C2_Witness ==
    /\ Returned
    /\ Len(words) >= 3
    /\ Len(result) >= 2
    /\ chunk_overlap \in 1..(chunk_size - 1)
    /\ Len(split(result[Len(result)])) < chunk_size

\* C10: a text of n words, 0 < n < windowSize, gives exactly one chunk, the
\* whole text (its words joined by single spaces), whatever the overlap.
C10_ShortTextOneChunk ==
    (Returned /\ Len(split(text)) > 0 /\ Len(split(text)) < chunk_size) =>
        result = << join(split(text)) >>

(***************************************************************************)
(* Claims about align_chunks (SpecAlign)                                   *)
(***************************************************************************)
\* C3: for chunk sequences of lengths m and n, align_chunks returns exactly
\* max(m, n) pairs; pair i is (candidate[i], reference[i]) below min(m, n),
\* and from there on the member of the shorter sequence is "" and the other
\* is the longer sequence's chunk i; every member is a string.
C3_AlignLength ==
    pc = "align_return" =>
        LET m == Len(candidate_chunks)
            n == Len(reference_chunks)
        IN  /\ Len(chunk_pairs) = (IF m > n THEN m ELSE n)
            /\ \A i \in 1..Len(chunk_pairs) :
                  /\ Len(chunk_pairs[i]) = 2
                  /\ chunk_pairs[i][1] = (IF i <= m THEN candidate_chunks[i] ELSE <<>>)
                  /\ chunk_pairs[i][2] = (IF i <= n THEN reference_chunks[i] ELSE <<>>)
                  /\ chunk_pairs[i][1] \in Seq(Whitespace \cup Letters)
                  /\ chunk_pairs[i][2] \in Seq(Whitespace \cup Letters)

C3_Witness ==
    /\ pc = "align_return"
    /\ Len(candidate_chunks) = 1
    /\ Len(reference_chunks) = 3
    /\ chunk_pairs[3] = <<<<>>, reference_chunks[3]>>
    /\ reference_chunks[3] # <<>>

(***************************************************************************)
(* Claims about summarize_scores and print_summary (SpecSum)               *)
(***************************************************************************)
Dimensions == {"precision", "recall", "f1"}

LengthsMatch == \A d \in Dimensions : Len(scores[d]) = Len(chunk_pairs)

Summarized == pc \in {"summarize_return", "print_return"}

\* the weight the specification gives pair i
SpecWeight(i) ==
    LET cw == Len(split(chunk_pairs[i][1]))
        rw == Len(split(chunk_pairs[i][2]))
        larger == IF cw > rw THEN cw ELSE rw
    IN  IF larger > 1 THEN larger ELSE 1

RECURSIVE SpecTotal(_)
SpecTotal(n) == IF n = 0 THEN 0 ELSE SpecTotal(n - 1) + SpecWeight(n)

RECURSIVE SpecDot(_, _)
SpecDot(xs, n) == IF n = 0 THEN 0 ELSE SpecDot(xs, n - 1) + xs[n] * SpecWeight(n)

C6_MismatchFails ==
    (pc # "summarize_scores" /\ ~LengthsMatch) =>
        (pc = "summarize_raise" /\ error # "" /\ summary = Null)

\* row a comes before row b in the worst-chunk order: lower F1 first, equal
\* F1 by original position
Before(a, b) == a.f1 < b.f1 \/ (a.f1 = b.f1 /\ a.chunk < b.chunk)

\* C8: for a requested count c >= 1 the worst-chunk view is the first
\* min(c, chunk count) per-chunk records in the order of F1 ascending, records
\* of equal F1 in ascending original position; the rows are printed in it.
C8_WorstChunks ==
    (pc = "print_return" /\ args.show_chunks >= 1) =>
        LET rows == summary.per_chunk
            c == args.show_chunks
        IN  /\ Len(worst_chunks) = (IF c < summary.chunks THEN c ELSE summary.chunks)
            /\ \A i \in 1..Len(worst_chunks) :
                  /\ worst_chunks[i].chunk \in 1..Len(rows)
                  /\ worst_chunks[i] = rows[worst_chunks[i].chunk]
                  /\ Cardinality({j \in 1..Len(rows) : Before(rows[j], worst_chunks[i])}) = i - 1
            /\ Len(stdout) = 6 + Len(worst_chunks)
            /\ \A i \in 1..Len(worst_chunks) : stdout[6 + i][2] = worst_chunks[i].chunk

C8_Witness ==
    /\ pc = "print_return"
    /\ args.show_chunks = 2
    /\ summary.chunks = 3
    /\ Len(worst_chunks) = 2
    /\ worst_chunks[1].chunk = 2 /\ worst_chunks[2].chunk = 3
    /\ worst_chunks[1].f1 = worst_chunks[2].f1
    /\ summary.per_chunk[1].f1 > worst_chunks[1].f1

(***************************************************************************)
(* Claims about main (Spec)                                                *)
(***************************************************************************)
Aligned == align_chunks(candidate_chunks, reference_chunks)

AfterAlign ==
    \/ pc \in {"run_bertscore", "summarize_scores", "print_summary", "write_json", "done"}
    \/ pc = "exit" /\ oracle_calls > 0

\* C4: with a maximum pair count k smaller than the number of aligned pairs,
\* the pairs sent to the oracle and summarized are the first k aligned pairs
\* in order and the Summary's chunk count is k; with k not smaller, or no
\* maximum, all aligned pairs are kept.
C4_Truncation ==
    AfterAlign =>
        LET k == args.max_chunks
            kept == IF k # <<>> /\ k[1] < Len(Aligned) THEN k[1] ELSE Len(Aligned)
        IN  /\ Len(chunk_pairs) = kept
            /\ \A i \in 1..kept : chunk_pairs[i] = Aligned[i]
            /\ oracle_calls > 0 =>
                  /\ Len(oracle_batch.candidates) = kept
                  /\ Len(oracle_batch.references) = kept
                  /\ \A i \in 1..kept :
                        /\ oracle_batch.candidates[i] = Aligned[i][1]
                        /\ oracle_batch.references[i] = Aligned[i][2]
            /\ summary # Null =>
                  /\ summary.chunks = kept
                  /\ Len(summary.per_chunk) = kept
                  /\ \A i \in 1..kept :
                        /\ summary.per_chunk[i].chunk = i
                        /\ summary.per_chunk[i].candidate_excerpt = Aligned[i][1]
                        /\ summary.per_chunk[i].reference_excerpt = Aligned[i][2]

C4_Witness ==
    /\ pc = "done"
    /\ args.max_chunks = <<2>>
    /\ Len(Aligned) = 3
    /\ Aligned[3] # Aligned[1]
    /\ summary.chunks = 2
    /\ Len(oracle_batch.candidates) = 2

NothingReported == summary = Null /\ stdout = <<>> /\ json_file = Null

\* C7: the oracle is called at most once in a run, with the whole batch of
\* aligned and truncated pairs in pair order, after alignment and truncation
\* and before aggregation; a failed call is not repeated, it ends the run and
\* no Summary is produced, printed or written; a Summary exists only after
\* the one call has succeeded.
C7_OneOracleCall ==
    /\ [](oracle_calls <= 1)
    /\ [](oracle_calls = 0 => scores = Null /\ NothingReported)
    /\ [](oracle_calls = 1 =>
            /\ chunk_pairs = truncate(Aligned, args.max_chunks)
            /\ Len(oracle_batch.candidates) = Len(chunk_pairs)
            /\ Len(oracle_batch.references) = Len(chunk_pairs)
            /\ \A i \in 1..Len(chunk_pairs) :
                  chunk_pairs[i] = <<oracle_batch.candidates[i], oracle_batch.references[i]>>)
    /\ [](error = "ScoringError" => pc = "exit" /\ scores = Null /\ NothingReported)
    /\ [](summary # Null => oracle_calls = 1 /\ scores # Null /\ error = "")
    /\ [][oracle_calls' # oracle_calls =>
            /\ pc = "run_bertscore"
            /\ chunk_pairs' = chunk_pairs
            /\ summary = Null /\ summary' = Null]_vars
    /\ [][pc = "exit" => UNCHANGED vars]_vars

C7_Witness ==
    /\ pc = "exit"
    /\ error = "ScoringError"
    /\ oracle_calls = 1
    /\ Len(chunk_pairs) = 2
    /\ Len(Aligned) = 3
    /\ oracle_batch.candidates[1] # oracle_batch.references[1]
    /\ NothingReported

\* the integer an option stands for, given or by default
OptionValue(opt, default) ==
    IF opt = <<>> THEN [raised |-> "", value |-> default] ELSE int_of(opt[1])

\* the option is an integer that satisfies the bound lo
OptionAtLeast(opt, default, lo) ==
    OptionValue(opt, default).raised = "" /\ OptionValue(opt, default).value >= lo

\* C9: a configuration is accepted exactly when windowSize > 0, overlap >= 0
\* and batch size > 0; one that violates this is rejected before any chunking
\* or oracle call, and every one that satisfies it (overlap = 0 too) is not
\* rejected. (Stated for command lines whose other options are in order.)
C9_ConfigAccepted ==
    (/\ pc # "parse_args"
     /\ argv.max_chunks \in {<<>>, << <<"1">> >>, << <<"2">> >>}
     /\ argv.show_chunks \in {<<>>, << <<"1">> >>}) =>
        LET valid == /\ OptionAtLeast(argv.chunk_size, DefaultChunkSize, 1)
                     /\ OptionAtLeast(argv.chunk_overlap, DefaultChunkOverlap, 0)
                     /\ OptionAtLeast(argv.batch_size, DefaultBatchSize, 1)
        IN  /\ ~valid => (pc = "exit" /\ error = "ArgumentError"
                          /\ candidate_chunks = <<>> /\ reference_chunks = <<>>
                          /\ oracle_calls = 0)
            /\ valid => error # "ArgumentError"

====
